---- MODULE Spec2Model ----
(***************************************************************************)
(* Model of the shelf-product colour pipeline: process_image in            *)
(* detect_product.py and colors_extracted / find_similar_objects /         *)
(* color_distance / find_dominant_colors in extract_color.py.              *)
(*                                                                         *)
(* One behaviour is one call of process_image.  The detector, the image    *)
(* file and the pixel content of each crop are the environment: they are   *)
(* drawn from small sets at the step that reads them.  sqlite3.connect and *)
(* CREATE TABLE IF NOT EXISTS are taken to succeed; write failures of the  *)
(* store are modelled at INSERT and at COMMIT.                             *)
(*                                                                         *)
(* A colour is a 3-tuple of channel values 0..255 (numpy uint8).  None as  *)
(* a dominant colour is the empty tuple.                                   *)
(***************************************************************************)
EXTENDS Integers, Sequences, FiniteSets, TLC

VARIABLES
    pc,               \* position of process_image
    boxes,            \* detections returned by predict_objects: the class ids, in order
    class_names,      \* class id -> name map returned by predict_objects
    dominant_colors,  \* colors_extracted: one entry per detection processed so far
    i,                \* find_similar_objects: number of colours processed (enumerate index)
    color_groups,     \* find_similar_objects: insertion-ordered dict, as a sequence
    member_of,        \* history: member_of[k] = position of the group colour k was put in
    colors_result,    \* list returned by colors_extracted, renamed in place afterwards
    j,                \* save_to_database: number of items inserted so far
    pending,          \* rows inserted in the open, uncommitted transaction
    committed,        \* rows of this run committed to colors_results
    log,              \* messages printed, by the function that printed them
    stages            \* history: pipeline stages completed

vars == <<pc, boxes, class_names, dominant_colors, i, color_groups, member_of,
          colors_result, j, pending, committed, log, stages>>

----------------------------------------------------------------------------
(* Bounds and input sets *)

MaxDet == 3

Threshold == 10

None == <<>>

Black == <<0, 0, 0>>
Dark10 == <<10, 0, 0>>
Dark12 == <<12, 0, 0>>
Dark13 == <<13, 0, 0>>
Dark6 == <<6, 0, 0>>
Red == <<255, 0, 0>>
Green == <<0, 255, 0>>

\* The pixel regions image[y1:y2, x1:x2] can hold: an empty region, solid
\* regions, and a two-pixel region whose mean (6.5) is not an integer.
\* NearCrops are the regions of a dark image: all channel values are below
\* 16, so no square of a channel difference reaches 256.
NearCrops == { <<>>, <<Black>>, <<Black, Dark13>>, <<Dark10>>, <<Dark12>> }

Crops == NearCrops \cup { <<Red>>, <<Green>> }

ClassIds == {0, 5}

NameMaps == { (0 :> "cat"), (0 :> "cat" @@ 5 :> "bottle") }

RECURSIVE SeqsUpTo(_)
SeqsUpTo(n) ==
    IF n = 0 THEN { <<>> }
    ELSE LET S == SeqsUpTo(n - 1)
         IN  S \cup { Append(s, c) : s \in { t \in S : Len(t) = n - 1 }, c \in ClassIds }

----------------------------------------------------------------------------
(* extract_color.py *)

RECURSIVE SumChan(_, _)
SumChan(pixels, ch) ==
    IF pixels = <<>> THEN 0
    ELSE Head(pixels)[ch] + SumChan(Tail(pixels), ch)

\* cv2.kmeans with k = 1: the centre is the mean of the pixels; np.uint8
\* truncates each component.  An empty region makes cv2.kmeans raise, and
\* the function returns None.
find_dominant_colors(image) ==
    IF Len(image) = 0 THEN None
    ELSE [ch \in 1..3 |-> (SumChan(image, ch) \div Len(image)) % 256]

\* One component of (color1 - color2) ** 2 on uint8 operands.
SquaredDiff(a, b) == (((a - b) % 256) * ((a - b) % 256)) % 256

\* np.sum over a uint8 array accumulates in the platform integer.
SumSquares(color1, color2) ==
    SquaredDiff(color1[1], color2[1]) + SquaredDiff(color1[2], color2[2])
        + SquaredDiff(color1[3], color2[3])

\* Integer part of the square root; the sum of three uint8 values is below 28 * 28.
ISqrt(n) == CHOOSE r \in 0..28 : r * r <= n /\ n < (r + 1) * (r + 1)

color_distance(color1, color2) == ISqrt(SumSquares(color1, color2))

\* Faulty variant: the threshold test is not strict.
IsSimilarInclusive(color, known_color) == color_distance(color, known_color) <= Threshold

IsSimilar(color, known_color) == color_distance(color, known_color) < Threshold

\* Faulty variant: the last similar key wins (no break at the first match).
LastSimilar(groups, color) ==
    LET hits == { g \in 1..Len(groups) : IsSimilar(color, groups[g].color) }
    IN  IF hits = {} THEN 0 ELSE CHOOSE g \in hits : \A h \in hits : g >= h

\* The first key of color_groups, in insertion order, that the colour is
\* similar to; 0 when the inner loop ends without a break.
FirstSimilar(groups, color) ==
    LET hits == { g \in 1..Len(groups) : IsSimilar(color, groups[g].color) }
    IN  IF hits = {} THEN 0 ELSE CHOOSE g \in hits : \A h \in hits : g <= h

\* Faulty variant: without the break, every similar group is incremented.
AddColorNoBreak(groups, color, idx) ==
    IF FirstSimilar(groups, color) # 0
    THEN [g \in 1..Len(groups) |->
            IF IsSimilar(color, groups[g].color)
            THEN [groups[g] EXCEPT !.count = @ + 1]
            ELSE groups[g]]
    ELSE Append(groups, [color |-> color, index |-> idx, count |-> 1])

\* One iteration of the outer loop of find_similar_objects, for a colour that is not None.
AddColor(groups, color, idx) ==
    LET g == FirstSimilar(groups, color)
    IN  IF g # 0
        THEN [groups EXCEPT ![g].count = @ + 1]
        ELSE Append(groups, [color |-> color, index |-> idx, count |-> 1])

\* The group the colour ends up in, after AddColor.
GroupOf(groups, color) ==
    LET g == FirstSimilar(groups, color)
    IN  IF g # 0 THEN g ELSE Len(groups) + 1

\* Faulty variant: the class id is read at the group's position, not at its index.
CompileResultsByPosition(groups, objects_data) ==
    [g \in 1..Len(groups) |->
        [class_id |-> objects_data[g],
         count |-> groups[g].count,
         color |-> groups[g].color]]

\* "Compile results" in colors_extracted.
CompileResults(groups, objects_data) ==
    [g \in 1..Len(groups) |->
        [class_id |-> objects_data[groups[g].index + 1],
         count |-> groups[g].count,
         color |-> groups[g].color]]

----------------------------------------------------------------------------
(* detect_product.py *)

\* Faulty variant: no sentinel for an id the map lacks.
ClassNameNoDefault(names, class_id) ==
    IF class_id \in DOMAIN names THEN names[class_id] ELSE "None"

\* class_names[class_id] if the id is a key, else 'Unknown'.
ClassName(names, class_id) ==
    IF class_id \in DOMAIN names THEN names[class_id] ELSE "Unknown"

replace_class_ids_with_names(result, names) ==
    [k \in 1..Len(result) |->
        [class_name |-> ClassName(names, result[k].class_id),
         count |-> result[k].count,
         color |-> result[k].color]]

\* The row of one INSERT: (class_name, quantity, str(color)).
Row(item) ==
    [class_name |-> item.class_name, quantity |-> item.count, color |-> ToString(item.color)]

\* Faulty variant: "if not boxes", which an empty list satisfies too.
DetectionFailedIfEmpty(r) == ~r.ok \/ r.boxes = <<>>

\* "if boxes is None or class_names is None"
DetectionFailed(r) == ~r.ok

\* conn.commit(): the rows of the open transaction become rows of the table.
CommitRows(table, rows) == table \o rows

\* cursor.execute("INSERT ..."): the row joins the open transaction.
InsertPending(rows, row) == Append(rows, row)

\* Faulty variant: a connection in autocommit mode.
InsertAutocommit(table, row) == Append(table, row)

\* The committed table is unchanged by an INSERT: sqlite3 opens a
\* transaction before it, and only conn.commit() ends it.
InsertCommitted(table, row) == table

----------------------------------------------------------------------------
(* The state machine *)

Init ==
    /\ pc = "start"
    /\ boxes = <<>>
    /\ class_names = <<>>
    /\ dominant_colors = <<>>
    /\ i = 0
    /\ color_groups = <<>>
    /\ member_of = <<>>
    /\ colors_result = <<>>
    /\ j = 0
    /\ pending = <<>>
    /\ committed = <<>>
    /\ log = <<>>
    /\ stages = {}

\* cv2.imread: the image, or None for an unreadable path.
ReadImage ==
    /\ pc = "start"
    /\ \E readable \in BOOLEAN :
          IF readable
          THEN /\ pc' = "predict"
               /\ log' = log
          ELSE /\ pc' = "done"
               /\ log' = Append(log, "read_image")
    /\ UNCHANGED <<boxes, class_names, dominant_colors, i, color_groups, member_of,
                   colors_result, j, pending, committed, stages>>

PredictResults ==
    { [ok |-> FALSE, boxes |-> <<>>, names |-> <<>>] }
        \cup { [ok |-> TRUE, boxes |-> b, names |-> n] : b \in SeqsUpTo(MaxDet), n \in NameMaps }

\* predict_objects and the check of its result in process_image.
Predict ==
    /\ pc = "predict"
    /\ \E r \in PredictResults :
          /\ boxes' = r.boxes
          /\ class_names' = r.names
          /\ stages' = IF r.ok THEN stages \cup {"Detect"} ELSE stages
          /\ IF DetectionFailed(r)
             THEN /\ pc' = "done"
                  /\ log' = log \o (IF r.ok THEN <<>> ELSE <<"predict_objects">>)
                                \o <<"detection_failed">>
             ELSE /\ pc' = "crop"
                  /\ log' = log
    /\ UNCHANGED <<dominant_colors, i, color_groups, member_of, colors_result, j,
                   pending, committed>>

\* One iteration of the first loop of colors_extracted, on an image whose
\* regions are those of the set given.
ExtractColorFrom(regions) ==
    /\ pc = "crop"
    /\ Len(dominant_colors) < Len(boxes)
    /\ \E cropped_region \in regions :
          LET dominant_color == find_dominant_colors(cropped_region)
          IN  /\ dominant_colors' = Append(dominant_colors, dominant_color)
              /\ log' = IF dominant_color = None
                        THEN Append(log, "find_dominant_colors")
                        ELSE log
    /\ UNCHANGED <<pc, boxes, class_names, i, color_groups, member_of, colors_result,
                   j, pending, committed, stages>>

ExtractColor == ExtractColorFrom(Crops)

ExtractColorNear == ExtractColorFrom(NearCrops)

\* The loop ends; find_similar_objects starts with an empty dict.
BeginGroup ==
    /\ pc = "crop"
    /\ Len(dominant_colors) = Len(boxes)
    /\ pc' = "group"
    /\ i' = 0
    /\ color_groups' = <<>>
    /\ member_of' = <<>>
    /\ UNCHANGED <<boxes, class_names, dominant_colors, colors_result, j, pending,
                   committed, log, stages>>

\* One iteration of the outer loop of find_similar_objects on a colour.
GroupStep ==
    /\ pc = "group"
    /\ i < Len(dominant_colors)
    /\ dominant_colors[i + 1] # None
    /\ color_groups' = AddColor(color_groups, dominant_colors[i + 1], i)
    /\ member_of' = Append(member_of, GroupOf(color_groups, dominant_colors[i + 1]))
    /\ i' = i + 1
    /\ UNCHANGED <<pc, boxes, class_names, dominant_colors, colors_result, j, pending,
                   committed, log, stages>>

\* The iteration on None.  With a known colour, color_distance raises on
\* None - known_color, prints and returns None, and None < 10 raises; with
\* no known colour, tuple(None) raises.  find_similar_objects prints and
\* returns None; color_groups.items() raises in colors_extracted, which
\* prints and returns None; iterating None raises in
\* replace_class_ids_with_names, and process_image prints and returns.
GroupStepNone ==
    /\ pc = "group"
    /\ i < Len(dominant_colors)
    /\ dominant_colors[i + 1] = None
    /\ log' = log
              \o (IF color_groups # <<>> THEN <<"color_distance">> ELSE <<>>)
              \o <<"find_similar_objects", "colors_extracted", "process_image">>
    /\ pc' = "done"
    /\ UNCHANGED <<boxes, class_names, dominant_colors, i, color_groups, member_of,
                   colors_result, j, pending, committed, stages>>

\* find_similar_objects returns; colors_extracted compiles the results.
Compile ==
    /\ pc = "group"
    /\ i = Len(dominant_colors)
    /\ colors_result' = CompileResults(color_groups, boxes)
    /\ stages' = stages \cup {"Group"}
    /\ pc' = "names"
    /\ UNCHANGED <<boxes, class_names, dominant_colors, i, color_groups, member_of, j,
                   pending, committed, log>>

ReplaceNames ==
    /\ pc = "names"
    /\ colors_result' = replace_class_ids_with_names(colors_result, class_names)
    /\ stages' = stages \cup {"Aggregate"}
    /\ pc' = "save"
    /\ UNCHANGED <<boxes, class_names, dominant_colors, i, color_groups, member_of, j,
                   pending, committed, log>>

\* save_to_database: connect, create the table if absent.
OpenStore ==
    /\ pc = "save"
    /\ pc' = "insert"
    /\ j' = 0
    /\ pending' = <<>>
    /\ UNCHANGED <<boxes, class_names, dominant_colors, i, color_groups, member_of,
                   colors_result, committed, log, stages>>

\* One INSERT.  A failed INSERT raises: save_to_database prints and returns
\* without commit, and the open transaction is rolled back with the connection.
InsertRow ==
    /\ pc = "insert"
    /\ j < Len(colors_result)
    /\ \E written \in BOOLEAN :
          IF written
          THEN /\ pending' = InsertPending(pending, Row(colors_result[j + 1]))
               /\ committed' = InsertCommitted(committed, Row(colors_result[j + 1]))
               /\ j' = j + 1
               /\ UNCHANGED <<pc, log>>
          ELSE /\ pending' = <<>>
               /\ pc' = "done"
               /\ log' = Append(log, "save_to_database")
               /\ UNCHANGED <<j, committed>>
    /\ UNCHANGED <<boxes, class_names, dominant_colors, i, color_groups, member_of,
                   colors_result, stages>>

\* conn.commit() and conn.close().  With no row inserted no transaction is
\* open and commit does nothing.
Commit ==
    /\ pc = "insert"
    /\ j = Len(colors_result)
    /\ \E written \in (IF pending = <<>> THEN {TRUE} ELSE BOOLEAN) :
          IF written
          THEN /\ committed' = CommitRows(committed, pending)
               /\ stages' = stages \cup {"Persist"}
               /\ log' = log
          ELSE /\ log' = Append(log, "save_to_database")
               /\ UNCHANGED <<committed, stages>>
    /\ pending' = <<>>
    /\ pc' = "done"
    /\ UNCHANGED <<boxes, class_names, dominant_colors, i, color_groups, member_of,
                   colors_result, j>>

Next ==
    \/ ReadImage
    \/ Predict
    \/ ExtractColor
    \/ BeginGroup
    \/ GroupStep
    \/ GroupStepNone
    \/ Compile
    \/ ReplaceNames
    \/ OpenStore
    \/ InsertRow
    \/ Commit

Spec == Init /\ [][Next]_vars

\* The same pipeline on a dark image.
NextNear ==
    \/ ReadImage
    \/ Predict
    \/ ExtractColorNear
    \/ BeginGroup
    \/ GroupStep
    \/ GroupStepNone
    \/ Compile
    \/ ReplaceNames
    \/ OpenStore
    \/ InsertRow
    \/ Commit

SpecNear == Init /\ [][NextNear]_vars

----------------------------------------------------------------------------
(* Properties *)

InLog(m) == \E k \in 1..Len(log) : log[k] = m

RECURSIVE SumCounts(_)
SumCounts(groups) ==
    IF groups = <<>> THEN 0 ELSE Head(groups).count + SumCounts(Tail(groups))

RECURSIVE SumQuantities(_)
SumQuantities(rows) ==
    IF rows = <<>> THEN 0 ELSE Head(rows).quantity + SumQuantities(Tail(rows))

\* The colours put in group g so far, by their position in the input.
Members(g) == { k \in 1..Len(member_of) : member_of[k] = g }

\* Squared Euclidean distance over the raw channel values, without wrap-around.
TrueSumSquares(c, r) ==
    (c[1] - r[1]) * (c[1] - r[1]) + (c[2] - r[2]) * (c[2] - r[2])
        + (c[3] - r[3]) * (c[3] - r[3])

\* Squared distance as uint8 arithmetic gives it: differences and squares modulo 256.
WrappedSumSquares(c, r) ==
    LET sq(a, b) == (((a - b + 256) % 256) * ((a - b + 256) % 256)) % 256
    IN  sq(c[1], r[1]) + sq(c[2], r[2]) + sq(c[3], r[3])

\* C1: while find_similar_objects runs and after it returns, the counts of
\* the groups sum to the number of colours processed, every processed colour
\* is counted in exactly one group, and the sum is the length of the input
\* once the whole input is processed.
C1_PartitionSum ==
    /\ SumCounts(color_groups) = i
    /\ Len(member_of) = i
    /\ \A k \in 1..i : member_of[k] \in 1..Len(color_groups)
    /\ \A g \in 1..Len(color_groups) : color_groups[g].count = Cardinality(Members(g))
    /\ "Group" \in stages => SumCounts(color_groups) = Len(dominant_colors)

C1_Witness ==
    /\ "Group" \in stages
    /\ Len(dominant_colors) = 3
    /\ Len(color_groups) = 2
    /\ color_groups[1].count = 2

\* C2: a colour is treated as similar to a representative exactly when the
\* Euclidean distance over the raw channel values is strictly below 10.
C2_EuclideanThreshold ==
    \A k \in 1..Len(dominant_colors) : \A g \in 1..Len(color_groups) :
        dominant_colors[k] # None =>
            (IsSimilar(dominant_colors[k], color_groups[g].color)
                <=> TrueSumSquares(dominant_colors[k], color_groups[g].color) < 100)

\* C3: dominant colours (255,0,0), (255,0,0), (0,255,0) end as two rows:
\* quantity 2 with colour (255,0,0), then quantity 1 with colour (0,255,0).
C3_EndToEnd ==
    (/\ pc = "done"
     /\ dominant_colors = <<Red, Red, Green>>
     /\ ~InLog("save_to_database"))
    => /\ Len(colors_result) = 2
       /\ colors_result[1].count = 2 /\ colors_result[1].color = Red
       /\ colors_result[2].count = 1 /\ colors_result[2].color = Green
       /\ committed = <<Row(colors_result[1]), Row(colors_result[2])>>

\* C4: a step of the grouper on a colour similar to some representative
\* adds one to the count of the earliest-created such group and changes no
\* key, index or other count; on a colour similar to none it appends one
\* group keyed by the colour, with its input position and count 1, and
\* leaves the existing groups as they are.
C4_GreedyFrame ==
    [][(pc = "group" /\ i' = i + 1) =>
        LET color == dominant_colors[i + 1]
            hits == { g \in 1..Len(color_groups) : IsSimilar(color, color_groups[g].color) }
        IN  IF hits # {}
            THEN /\ Len(color_groups') = Len(color_groups)
                 /\ \A g \in 1..Len(color_groups) :
                       /\ color_groups'[g].color = color_groups[g].color
                       /\ color_groups'[g].index = color_groups[g].index
                       /\ color_groups'[g].count =
                             IF \A h \in hits : g <= h /\ g \in hits
                             THEN color_groups[g].count + 1
                             ELSE color_groups[g].count
            ELSE /\ Len(color_groups') = Len(color_groups) + 1
                 /\ \A g \in 1..Len(color_groups) : color_groups'[g] = color_groups[g]
                 /\ color_groups'[Len(color_groups) + 1] =
                       [color |-> color, index |-> i, count |-> 1]
    ]_vars

\* The third colour is similar to both representatives and joined the first.
C4_Witness ==
    /\ pc = "group"
    /\ i = 3
    /\ Len(color_groups) = 2
    /\ IsSimilar(dominant_colors[3], color_groups[1].color)
    /\ IsSimilar(dominant_colors[3], color_groups[2].color)
    /\ color_groups[1].count = 2

\* C5: the compiled results hold one record per group, in the order the
\* groups were created; each carries the group's count (at least 1), its
\* representative colour and the class id of the first detection put in the
\* group; groups of the same class stay separate records.
C5_OneRecordPerGroup ==
    "Group" \in stages =>
        /\ Len(colors_result) = Len(color_groups)
        /\ \A g \in 1..Len(color_groups) :
              /\ Members(g) # {}
              /\ colors_result[g].count = Cardinality(Members(g))
              /\ colors_result[g].count >= 1
              /\ colors_result[g].color = dominant_colors[CHOOSE k \in Members(g) :
                                                              \A m \in Members(g) : k <= m]
              /\ pc = "names" =>
                    colors_result[g].class_id = boxes[CHOOSE k \in Members(g) :
                                                          \A m \in Members(g) : k <= m]
        /\ \A g, h \in 1..Len(color_groups) :
              g < h => (CHOOSE k \in Members(g) : \A m \in Members(g) : k <= m)
                          < (CHOOSE k \in Members(h) : \A m \in Members(h) : k <= m)

\* Two groups of the same class, the second founded by the third detection.
C5_Witness ==
    /\ pc = "names"
    /\ Len(colors_result) = 2
    /\ colors_result[1].class_id = colors_result[2].class_id
    /\ color_groups[2].index = 2
    /\ boxes[2] # boxes[3]

\* C6: replace_class_ids_with_names gives every record the name its class
\* id maps to, or "Unknown" for an id the map lacks, removes class_id, and
\* keeps the count, the colour, the number and the order of the records.
C6_NameResolution ==
    [][pc = "names" =>
        /\ Len(colors_result') = Len(colors_result)
        /\ \A k \in 1..Len(colors_result) :
              /\ DOMAIN colors_result'[k] = {"class_name", "count", "color"}
              /\ colors_result'[k].class_name =
                    IF colors_result[k].class_id \in DOMAIN class_names
                    THEN class_names[colors_result[k].class_id]
                    ELSE "Unknown"
              /\ colors_result'[k].count = colors_result[k].count
              /\ colors_result'[k].color = colors_result[k].color
    ]_vars

C6_Witness ==
    /\ "Aggregate" \in stages
    /\ Len(colors_result) = 2
    /\ colors_result[1].class_name = "Unknown"
    /\ colors_result[2].class_name = "cat"

\* C7: with a readable image and an empty detection list, the run goes
\* through Group, Aggregate and Persist, prints no error and commits no row.
C7_EmptyDetections ==
    ("Detect" \in stages /\ boxes = <<>>) =>
        /\ log = <<>>
        /\ pending = <<>>
        /\ committed = <<>>
        /\ pc = "done" => {"Group", "Aggregate", "Persist"} \subseteq stages

C7_Witness ==
    /\ pc = "done"
    /\ "Detect" \in stages
    /\ boxes = <<>>
    /\ "Persist" \in stages
    /\ committed = <<>>

\* C8: the committed rows are none or one row per result record of the
\* run; a run that fails ends with no row committed; nothing is inserted or
\* committed before Detect, Group and Aggregate are complete.
C8_NoPartialPersist ==
    /\ \/ committed = <<>>
       \/ /\ "Aggregate" \in stages
          /\ committed = [k \in 1..Len(colors_result) |-> Row(colors_result[k])]
    /\ (InLog("read_image") \/ InLog("detection_failed") \/ InLog("process_image")
            \/ InLog("save_to_database")) => committed = <<>>
    /\ (pc = "insert" \/ pending # <<>> \/ committed # <<>> \/ "Persist" \in stages)
          => {"Detect", "Group", "Aggregate"} \subseteq stages

\* The second of two inserts failed: the first row is not committed.
C8_Witness ==
    /\ pc = "done"
    /\ Len(colors_result) = 2
    /\ j = 1
    /\ InLog("save_to_database")
    /\ committed = <<>>

\* C9: a run in which one crop is empty and others are not, and the store
\* does not fail, ends with rows that count the other detections.
C9_SilentDrop ==
    (/\ pc = "done"
     /\ "Detect" \in stages
     /\ Len(dominant_colors) = Len(boxes)
     /\ \E k \in 1..Len(dominant_colors) : dominant_colors[k] = None
     /\ \E k \in 1..Len(dominant_colors) : dominant_colors[k] # None
     /\ ~InLog("save_to_database"))
    => /\ committed # <<>>
       /\ SumQuantities(committed)
             = Cardinality({ k \in 1..Len(dominant_colors) : dominant_colors[k] # None })

\* C10 as stated: any two colours put in the same group are within
\* Euclidean distance 10 of each other.
C10_MutuallyClose ==
    \A k, m \in 1..Len(member_of) :
        member_of[k] = member_of[m] =>
            TrueSumSquares(dominant_colors[k], dominant_colors[m]) < 100

\* C10 as amended: every colour put in a group is within distance 10 of the
\* group's representative, the first colour of the group, the distance
\* being the one uint8 arithmetic gives.
C10_CloseToRepresentative ==
    \A k \in 1..Len(member_of) :
        /\ member_of[k] \in 1..Len(color_groups)
        /\ WrappedSumSquares(dominant_colors[k], color_groups[member_of[k]].color) < 100
        /\ color_groups[member_of[k]].color
              = dominant_colors[CHOOSE f \in Members(member_of[k]) :
                                    \A m \in Members(member_of[k]) : f <= m]

\* A group of three founded by (6,0,0): its members (0,0,0) and (12,0,0)
\* are each at distance 6 of it and at distance 12 of each other.
C10_Witness ==
    /\ Len(color_groups) = 1
    /\ color_groups[1].count = 3
    /\ color_groups[1].color = Dark6
    /\ dominant_colors[2] = Black
    /\ dominant_colors[3] = Dark12
    /\ TrueSumSquares(dominant_colors[2], dominant_colors[3]) >= 100

====
